---------------------------- MODULE Spec2Model ----------------------------
(***************************************************************************)
(* Menu management API (Category -> SubCategory -> Item): the request      *)
(* handlers of the three controllers, the Mongoose schemas they save       *)
(* through, and the pricing helper.                                        *)
(*                                                                         *)
(* A JSON value is a tagged record; a field that is missing from a request *)
(* body or from a stored document holds Undefined, which is what the code  *)
(* reads from it.  Amounts (baseAmount, discount, totalAmount) are counted *)
(* in thousandths of the currency unit, so 18.99 is 18990; tax is counted  *)
(* in whole units.  Arithmetic on amounts is exact decimal arithmetic.     *)
(***************************************************************************)
EXTENDS Integers, Sequences, FiniteSets, TLC

VARIABLES categories, subCategories, items, response, inFlight

vars == <<categories, subCategories, items, response, inFlight>>

(* ------------------------------ bounds -------------------------------- *)
MaxCategories == 2
MaxSubCategories == 2
MaxItems == 2

(* --------------------------- JSON values ------------------------------ *)
Undefined == [type |-> "undefined"]
Null == [type |-> "null"]
Num(n) == [type |-> "number", val |-> n]
Str(s) == [type |-> "string", val |-> s]
Bool(b) == [type |-> "boolean", val |-> b]
\* an ObjectId, written in a request as its 24-digit hex string
Oid(k) == [type |-> "objectid", val |-> k]

IsNumber(v) == v.type = "number"

\* JavaScript truthiness, as used by '!x', 'x && y' and 'if (x)'
Truthy(v) ==
  CASE v.type = "number" -> v.val # 0
    [] v.type = "string" -> v.val # ""
    [] v.type = "boolean" -> v.val
    [] v.type = "objectid" -> TRUE
    [] OTHER -> FALSE

\* v == null in JavaScript: null or undefined
IsNullish(v) == v.type \in {"undefined", "null"}

\* what a handler returns: the HTTP status, the message and the collection
\* it wrote to (unchanged when the request was refused)
Reply(status, message, docs) ==
  [status |-> status, message |-> message, docs |-> docs]

\* the ids a request can name: those handed out so far, and one that is
\* not stored
Ids(docs) == 1 .. (Len(docs) + 1)

\* the defaults of the three schemas (taxApplicability: false, taxType:
\* 'percentage', and discount: 0 on an Item).  Mongoose fills a path that is
\* undefined with its default when a document is constructed and when one is
\* read from the collection.
applyDefaults(doc) ==
  [f \in DOMAIN doc |->
     IF doc[f] # Undefined THEN doc[f]
     ELSE IF f = "taxApplicability" THEN Bool(FALSE)
     ELSE IF f = "taxType" THEN Str("percentage")
     ELSE IF f = "discount" THEN Num(0)
     ELSE Undefined]

\* Model.findById(id): the document as the application reads it, or Null
findById(docs, id) ==
  IF id.type = "objectid" /\ id.val \in 1 .. Len(docs)
    THEN applyDefaults(docs[id.val]) ELSE Null

\* a variant of the owner check that finds every id
OwnerAlwaysFound(docs, id) == FALSE

\* the check of an item's owner: no Category, or SubCategory, has this id
OwnerMissing(docs, id) == findById(docs, id) = Null

\* a variant of Merged that recomputes from the stored value alone
MergedStale(supplied, stored) == stored

\* a field of the merged candidate of an update: the supplied value, or the
\* stored one
Merged(supplied, stored) == IF supplied # Undefined THEN supplied ELSE stored


(* -------------------- tax fields of the schemas ----------------------- *)
\* Mongoose casts a value to the path's type before it validates or writes
\* it; null and undefined are left alone, a value of another kind is a
\* CastError
CastsToNumber(v) == IsNullish(v) \/ v.type = "number"
CastsToString(v) == IsNullish(v) \/ v.type = "string"
CastsToBoolean(v) == IsNullish(v) \/ v.type = "boolean"
CastsToObjectId(v) == IsNullish(v) \/ v.type = "objectid"

\* tax: { type: Number, min: [0, ...], max: [100, ...] }; min and max pass
\* null and undefined.  "" is no error.
taxError(v) ==
  IF IsNullish(v) THEN ""
  ELSE IF v.val < 0 THEN "Tax cannot be negative"
  ELSE IF v.val > 100 THEN "Tax cannot exceed 100%"
  ELSE ""

\* taxType: { type: String, enum: ['percentage', 'fixed'] }
taxTypeError(v) ==
  IF IsNullish(v) \/ v.val \in {"percentage", "fixed"} THEN ""
  ELSE "taxType is not a valid enum value"

\* required: true on a String path wants a non-empty string, on a Number
\* path a number, on a Boolean path a boolean, on an ObjectId path an id
RequiredOk(v) == ~IsNullish(v) /\ (v.type = "string" => v.val # "")

\* required: function () { return this.taxApplicability }, with 'this' the
\* document being saved
taxRequiredOnSave(doc) == Truthy(doc.taxApplicability)

\* the same function under runValidators: 'this' is then the query, which
\* has no taxApplicability, so the function returns undefined
taxRequiredOnUpdate == FALSE

\* first failing validator of the three tax paths of a document being saved
TaxPathsErrorOnSave(doc) ==
  IF ~RequiredOk(doc.taxApplicability) THEN "Tax applicability is required"
  ELSE IF taxRequiredOnSave(doc) /\ ~RequiredOk(doc.tax) THEN "Path tax is required."
  ELSE IF taxError(doc.tax) # "" THEN taxError(doc.tax)
  ELSE IF taxRequiredOnSave(doc) /\ ~RequiredOk(doc.taxType)
    THEN "Path taxType is required."
  ELSE taxTypeError(doc.taxType)

\* first failing update validator of the tax paths an update sets or unsets;
\* an unset path runs its required validator only
TaxPathsErrorOnUpdate(set, unset) ==
  IF set.taxApplicability # Undefined /\ ~RequiredOk(set.taxApplicability)
    THEN "Tax applicability is required"
  ELSE IF (set.tax # Undefined \/ "tax" \in unset) /\ taxRequiredOnUpdate
          /\ ~RequiredOk(set.tax) THEN "Path tax is required."
  ELSE IF taxError(set.tax) # "" THEN taxError(set.tax)
  ELSE IF (set.taxType # Undefined \/ "taxType" \in unset) /\ taxRequiredOnUpdate
          /\ ~RequiredOk(set.taxType) THEN "Path taxType is required."
  ELSE taxTypeError(set.taxType)

\* the three text paths, each required: [true, ...]
TextPathsErrorOnUpdate(set, kind) ==
  IF set.name # Undefined /\ ~RequiredOk(set.name) THEN kind \o " name is required"
  ELSE IF set.image # Undefined /\ ~RequiredOk(set.image)
    THEN kind \o " image URL is required"
  ELSE IF set.description # Undefined /\ ~RequiredOk(set.description)
    THEN kind \o " description is required"
  ELSE ""

\* a variant of the controllers' check that misses nothing
TaxFieldsNeverMissing(tax, taxType) == FALSE

\* a variant of the controllers' check that takes a tax of 0 for a missing one
TaxFieldsMissingOrZero(tax, taxType) == ~Truthy(tax) \/ ~Truthy(taxType)

\* the controllers' check '(!tax && tax !== 0) || !taxType'
TaxFieldsMissing(tax, taxType) ==
  (~Truthy(tax) /\ tax # Num(0)) \/ ~Truthy(taxType)

TaxRequiredMessage == "Tax amount and tax type are required when tax is applicable"

\* a variant of ApplyUpdate that writes the paths of $set and leaves the
\* paths of $unset as they are
ApplyUpdateSetOnly(doc, set, unset) ==
  [f \in DOMAIN doc |-> IF f \in DOMAIN set /\ set[f] # Undefined THEN set[f] ELSE doc[f]]

\* a variant of ApplyUpdate that replaces the document: a path the update
\* does not set is left without a value
ApplyUpdateReplacing(doc, set, unset) ==
  [f \in DOMAIN doc |-> IF f \in DOMAIN set /\ f \notin unset THEN set[f] ELSE Undefined]

\* a document after an update: every path of $set written, every path of
\* $unset removed
ApplyUpdate(doc, set, unset) ==
  [f \in DOMAIN doc |->
     IF f \in unset THEN Undefined
     ELSE IF f \in DOMAIN set /\ set[f] # Undefined THEN set[f]
     ELSE doc[f]]

\* docs with the document at position id replaced
Replace(docs, id, doc) == [docs EXCEPT ![id] = doc]

(* ----------------------------- Category ------------------------------- *)
\* validation of a Category being saved; "" is no error
categorySchemaError(doc) ==
  IF ~RequiredOk(doc.name) THEN "Category name is required"
  ELSE IF ~RequiredOk(doc.image) THEN "Category image URL is required"
  ELSE IF ~RequiredOk(doc.description) THEN "Category description is required"
  ELSE TaxPathsErrorOnSave(doc)

\* name: { unique: true }: another stored Category has this name
CategoryNameTaken(docs, name, self) ==
  \E i \in 1 .. Len(docs) : i # self /\ docs[i].name = name

\* category.save() and the catch block of createCategory
saveCategory(data) ==
  LET doc == applyDefaults(data) IN
  IF categorySchemaError(doc) # "" THEN Reply(400, categorySchemaError(doc), categories)
  ELSE IF CategoryNameTaken(categories, doc.name, 0)
    THEN Reply(400, "Category with this name already exists", categories)
  ELSE Reply(201, "Category created successfully", Append(categories, doc))

createCategory(body) ==
  IF ~Truthy(body.name) \/ ~Truthy(body.image) \/ ~Truthy(body.description)
     \/ body.taxApplicability = Undefined
    THEN Reply(400, "Name, image, description, and tax applicability are required",
               categories)
  ELSE IF Truthy(body.taxApplicability) /\ TaxFieldsMissing(body.tax, body.taxType)
    THEN Reply(400, TaxRequiredMessage, categories)
  ELSE saveCategory(
         [name |-> body.name, image |-> body.image, description |-> body.description,
          taxApplicability |-> body.taxApplicability,
          tax |-> IF Truthy(body.taxApplicability) THEN body.tax ELSE Undefined,
          taxType |-> IF Truthy(body.taxApplicability) THEN body.taxType ELSE Undefined])

\* the update validators of a Category update (runValidators: true)
categoryUpdateError(set, unset) ==
  IF TextPathsErrorOnUpdate(set, "Category") # ""
    THEN TextPathsErrorOnUpdate(set, "Category")
  ELSE TaxPathsErrorOnUpdate(set, unset)

\* a value of the wrong kind for one of the shared paths: a CastError
SharedPathsCast(set) ==
  /\ CastsToString(set.name) /\ CastsToString(set.image)
  /\ CastsToString(set.description) /\ CastsToBoolean(set.taxApplicability)
  /\ CastsToNumber(set.tax) /\ CastsToString(set.taxType)

\* Category.findByIdAndUpdate(id, updateData, {new: true, runValidators: true})
\* and what updateCategory answers: the update is cast, validated, and then
\* applied to the document with that id, if there is one
categoryFindByIdAndUpdate(docs, id, set, unset) ==
  IF ~SharedPathsCast(set) THEN Reply(404, "Category not found", docs)
  ELSE IF categoryUpdateError(set, unset) # ""
    THEN Reply(400, categoryUpdateError(set, unset), docs)
  ELSE IF findById(docs, Oid(id)) = Null THEN Reply(404, "Category not found", docs)
  ELSE LET doc == ApplyUpdate(docs[id], set, unset) IN
       IF CategoryNameTaken(docs, doc.name, id)
         THEN Reply(400, "Category with this name already exists", docs)
       ELSE Reply(200, "Category updated successfully", Replace(docs, id, doc))

\* the tax part of updateData, the same in the three update handlers: with
\* taxApplicability supplied, tax and taxType are written only when it is
\* truthy; without it they are written when supplied
TaxUpdateSet(body, f) ==
  IF body.taxApplicability = Undefined \/ Truthy(body.taxApplicability)
    THEN body[f] ELSE Undefined

TaxUpdateUnset(body) ==
  IF body.taxApplicability # Undefined /\ ~Truthy(body.taxApplicability)
    THEN {"tax", "taxType"} ELSE {}

\* the early return of the update handlers
TaxUpdateRefused(body) ==
  /\ body.taxApplicability # Undefined
  /\ Truthy(body.taxApplicability)
  /\ TaxFieldsMissing(body.tax, body.taxType)

\* updateCategory with docs the stored Categories
updateCategoryOf(docs, id, body) ==
  IF TaxUpdateRefused(body) THEN Reply(400, TaxRequiredMessage, docs)
  ELSE categoryFindByIdAndUpdate(docs, id,
         [name |-> body.name, image |-> body.image, description |-> body.description,
          taxApplicability |-> body.taxApplicability,
          tax |-> TaxUpdateSet(body, "tax"), taxType |-> TaxUpdateSet(body, "taxType")],
         TaxUpdateUnset(body))

updateCategory(id, body) == updateCategoryOf(categories, id, body)

(* ---------------------------- SubCategory ----------------------------- *)
subCategorySchemaError(doc) ==
  IF ~RequiredOk(doc.name) THEN "Subcategory name is required"
  ELSE IF ~RequiredOk(doc.image) THEN "Subcategory image URL is required"
  ELSE IF ~RequiredOk(doc.description) THEN "Subcategory description is required"
  ELSE IF TaxPathsErrorOnSave(doc) # "" THEN TaxPathsErrorOnSave(doc)
  ELSE IF ~RequiredOk(doc.categoryId) THEN "Category ID is required"
  ELSE ""

\* index({ name: 1, categoryId: 1 }, { unique: true })
SubCategoryNameTaken(docs, doc, self) ==
  \E i \in 1 .. Len(docs) :
     i # self /\ docs[i].name = doc.name /\ docs[i].categoryId = doc.categoryId

saveSubCategory(data) ==
  LET doc == applyDefaults(data) IN
  IF subCategorySchemaError(doc) # ""
    THEN Reply(400, subCategorySchemaError(doc), subCategories)
  ELSE IF SubCategoryNameTaken(subCategories, doc, 0)
    THEN Reply(400, "Subcategory with this name already exists in this category",
               subCategories)
  ELSE Reply(201, "Subcategory created successfully", Append(subCategories, doc))

\* a variant of Inherit that takes nothing from the parent
InheritNothing(own, parent) == own

\* a tax field of subCategoryData: the caller's value, or the parent's
Inherit(own, parent) == IF own # Undefined THEN own ELSE parent

createSubCategory(categoryId, body) ==
  IF ~Truthy(body.name) \/ ~Truthy(body.image) \/ ~Truthy(body.description)
    THEN Reply(400, "Name, image, and description are required", subCategories)
  ELSE LET parentCategory == findById(categories, Oid(categoryId)) IN
  IF parentCategory = Null THEN Reply(404, "Parent category not found", subCategories)
  ELSE LET subCategoryData ==
         [name |-> body.name, image |-> body.image, description |-> body.description,
          categoryId |-> Oid(categoryId),
          taxApplicability |->
            Inherit(body.taxApplicability, parentCategory.taxApplicability),
          tax |-> Inherit(body.tax, parentCategory.tax),
          taxType |-> Inherit(body.taxType, parentCategory.taxType)] IN
  IF Truthy(subCategoryData.taxApplicability)
     /\ TaxFieldsMissing(subCategoryData.tax, subCategoryData.taxType)
    THEN Reply(400, TaxRequiredMessage, subCategories)
  ELSE saveSubCategory(subCategoryData)

subCategoryUpdateError(set, unset) ==
  IF TextPathsErrorOnUpdate(set, "Subcategory") # ""
    THEN TextPathsErrorOnUpdate(set, "Subcategory")
  ELSE TaxPathsErrorOnUpdate(set, unset)

subCategoryFindByIdAndUpdate(docs, id, set, unset) ==
  IF ~SharedPathsCast(set) THEN Reply(404, "Subcategory not found", docs)
  ELSE IF subCategoryUpdateError(set, unset) # ""
    THEN Reply(400, subCategoryUpdateError(set, unset), docs)
  ELSE IF findById(docs, Oid(id)) = Null THEN Reply(404, "Subcategory not found", docs)
  ELSE LET doc == ApplyUpdate(docs[id], set, unset) IN
       IF SubCategoryNameTaken(docs, doc, id)
         THEN Reply(400, "Subcategory with this name already exists in this category", docs)
       ELSE Reply(200, "Subcategory updated successfully", Replace(docs, id, doc))

\* a variant of updateSubCategory that also writes a categoryId of the body
updateSubCategoryReparenting(docs, id, body) ==
  IF TaxUpdateRefused(body) THEN Reply(400, TaxRequiredMessage, docs)
  ELSE subCategoryFindByIdAndUpdate(docs, id,
         [name |-> body.name, image |-> body.image, description |-> body.description,
          taxApplicability |-> body.taxApplicability,
          tax |-> TaxUpdateSet(body, "tax"), taxType |-> TaxUpdateSet(body, "taxType"),
          categoryId |-> IF "categoryId" \in DOMAIN body THEN body.categoryId
                         ELSE Undefined],
         TaxUpdateUnset(body))

\* updateSubCategory with docs the stored SubCategories
updateSubCategoryOf(docs, id, body) ==
  IF TaxUpdateRefused(body) THEN Reply(400, TaxRequiredMessage, docs)
  ELSE subCategoryFindByIdAndUpdate(docs, id,
         [name |-> body.name, image |-> body.image, description |-> body.description,
          taxApplicability |-> body.taxApplicability,
          tax |-> TaxUpdateSet(body, "tax"), taxType |-> TaxUpdateSet(body, "taxType")],
         TaxUpdateUnset(body))

updateSubCategory(id, body) == updateSubCategoryOf(subCategories, id, body)

(* ------------------------------ helpers ------------------------------- *)
\* the value JavaScript gives an arithmetic expression with an operand that
\* is not a number
NaN == [type |-> "NaN"]

\* the two infinite numbers; JSON.parse reads 1e999 as Infinity
Infinity == [type |-> "Infinity", negative |-> FALSE]
MinusInfinity == [type |-> "Infinity", negative |-> TRUE]

\* typeof v === 'number': the finite numbers, the infinite ones and NaN
typeofNumber(v) == v.type \in {"number", "Infinity", "NaN"}

\* a - b; Infinity - Infinity is NaN
Minus(a, b) ==
  IF IsNumber(a) /\ IsNumber(b) THEN Num(a.val - b.val)
  ELSE IF a.type = "Infinity" /\ IsNumber(b) THEN a
  ELSE IF IsNumber(a) /\ b.type = "Infinity"
    THEN IF b.negative THEN Infinity ELSE MinusInfinity
  ELSE IF a.type = "Infinity" /\ b.type = "Infinity" /\ a # b THEN a
  ELSE NaN

\* a > b and a < b; a comparison with NaN or undefined is false
GreaterThan(a, b) ==
  IF IsNumber(a) /\ IsNumber(b) THEN a.val > b.val
  ELSE \/ a = Infinity /\ (IsNumber(b) \/ b = MinusInfinity)
       \/ IsNumber(a) /\ b = MinusInfinity

LessThan(a, b) == GreaterThan(b, a)

\* Number(x.toFixed(2)): x rounded to the nearest hundredth, which is ten
\* thousandths
toFixed2(x) ==
  IF ~IsNumber(x) THEN x
  ELSE IF x.val >= 0 THEN Num(((x.val + 5) \div 10) * 10)
  ELSE Num(0 - (((0 - x.val) + 5) \div 10) * 10)

\* what calculateTotal does: it throws (error is the message) or returns value
Thrown(message) == [error |-> message, value |-> Undefined]
Returned(value) == [error |-> "", value |-> value]

DiscountMessage == "Discount cannot be greater than base amount"

calculateTotal(baseAmount, discountArg) ==
  LET discount == IF discountArg = Undefined THEN Num(0) ELSE discountArg IN
  IF ~typeofNumber(baseAmount) \/ LessThan(baseAmount, Num(0))
    THEN Thrown("Base amount must be a non-negative number")
  ELSE IF ~typeofNumber(discount) \/ LessThan(discount, Num(0))
    THEN Thrown("Discount must be a non-negative number")
  ELSE IF GreaterThan(discount, baseAmount) THEN Thrown(DiscountMessage)
  ELSE Returned(toFixed2(Minus(baseAmount, discount)))

(* -------------------------------- Item -------------------------------- *)
\* baseAmount, discount and totalAmount of an Item being saved
amountPathsErrorOnSave(doc) ==
  IF ~RequiredOk(doc.baseAmount) THEN "Base amount is required"
  ELSE IF LessThan(doc.baseAmount, Num(0)) THEN "Base amount cannot be negative"
  ELSE IF LessThan(doc.discount, Num(0)) THEN "Discount cannot be negative"
  ELSE IF doc.baseAmount # Undefined /\ doc.discount # Undefined
          /\ ~IsNullish(doc.discount) /\ GreaterThan(doc.discount, doc.baseAmount)
    THEN DiscountMessage
  ELSE IF ~RequiredOk(doc.totalAmount) THEN "Path totalAmount is required."
  ELSE IF LessThan(doc.totalAmount, Num(0)) THEN "Total amount cannot be negative"
  ELSE ""

\* categoryId: required: function () { return !this.subCategoryId }, and the
\* other way round, with 'this' the document being saved
ownerPathsErrorOnSave(doc) ==
  IF ~Truthy(doc.subCategoryId) /\ ~RequiredOk(doc.categoryId)
    THEN "Path categoryId is required."
  ELSE IF ~Truthy(doc.categoryId) /\ ~RequiredOk(doc.subCategoryId)
    THEN "Path subCategoryId is required."
  ELSE ""

itemSchemaError(doc) ==
  IF ~RequiredOk(doc.name) THEN "Item name is required"
  ELSE IF ~RequiredOk(doc.image) THEN "Item image URL is required"
  ELSE IF ~RequiredOk(doc.description) THEN "Item description is required"
  ELSE IF TaxPathsErrorOnSave(doc) # "" THEN TaxPathsErrorOnSave(doc)
  ELSE IF amountPathsErrorOnSave(doc) # "" THEN amountPathsErrorOnSave(doc)
  ELSE ownerPathsErrorOnSave(doc)

\* itemSchema.pre('save'); it runs after the validation of the document
preSave(doc) == [doc EXCEPT !.totalAmount = Minus(doc.baseAmount, doc.discount)]

\* the two partial unique indexes: { name, categoryId } over the documents
\* that have a categoryId, { name, subCategoryId } over those that have a
\* subCategoryId
ItemNameTaken(docs, doc, self) ==
  \E i \in 1 .. Len(docs) :
     /\ i # self
     /\ docs[i].name = doc.name
     /\ \/ doc.categoryId # Undefined /\ docs[i].categoryId = doc.categoryId
        \/ doc.subCategoryId # Undefined /\ docs[i].subCategoryId = doc.subCategoryId

ItemDuplicateMessage == "Item with this name already exists in this category/subcategory"

\* item.save() and the catch block of createItem
saveItem(data) ==
  LET doc == applyDefaults(data) IN
  IF itemSchemaError(doc) # "" THEN Reply(400, itemSchemaError(doc), items)
  ELSE IF ItemNameTaken(items, preSave(doc), 0) THEN Reply(400, ItemDuplicateMessage, items)
  ELSE Reply(201, "Item created successfully", Append(items, preSave(doc)))

createItem(body) ==
  LET discount == IF body.discount = Undefined THEN Num(0) ELSE body.discount IN
  IF ~Truthy(body.name) \/ ~Truthy(body.image) \/ ~Truthy(body.description)
     \/ body.taxApplicability = Undefined \/ body.baseAmount = Undefined
    THEN Reply(400,
           "Name, image, description, tax applicability, and base amount are required",
           items)
  ELSE IF ~Truthy(body.categoryId) /\ ~Truthy(body.subCategoryId)
    THEN Reply(400, "Either category ID or subcategory ID must be provided", items)
  ELSE IF Truthy(body.categoryId) /\ Truthy(body.subCategoryId)
    THEN Reply(400,
           "Item cannot belong to both category and subcategory simultaneously", items)
  ELSE IF Truthy(body.taxApplicability) /\ TaxFieldsMissing(body.tax, body.taxType)
    THEN Reply(400, TaxRequiredMessage, items)
  ELSE IF Truthy(body.categoryId) /\ OwnerMissing(categories, body.categoryId)
    THEN Reply(404, "Category not found", items)
  ELSE IF Truthy(body.subCategoryId) /\ OwnerMissing(subCategories, body.subCategoryId)
    THEN Reply(404, "Subcategory not found", items)
  ELSE LET total == calculateTotal(body.baseAmount, discount) IN
  IF total.error # "" THEN Reply(400, total.error, items)
  ELSE saveItem(
         [name |-> body.name, image |-> body.image, description |-> body.description,
          taxApplicability |-> body.taxApplicability,
          tax |-> IF Truthy(body.taxApplicability) THEN body.tax ELSE Undefined,
          taxType |-> IF Truthy(body.taxApplicability) THEN body.taxType ELSE Undefined,
          baseAmount |-> body.baseAmount, discount |-> discount,
          totalAmount |-> total.value,
          categoryId |-> IF Truthy(body.categoryId) THEN body.categoryId ELSE Undefined,
          subCategoryId |->
            IF Truthy(body.categoryId) THEN Undefined ELSE body.subCategoryId])

\* what the pre('findOneAndUpdate') hook leaves: an error, or the update
Failed(message) == [error |-> message, set |-> Undefined]
Passed(set) == [error |-> "", set |-> set]

\* itemSchema.pre('findOneAndUpdate'): with baseAmount or discount in the
\* update and the document found, the total is recomputed from the merged
\* values and written into the update
preFindOneAndUpdate(set, currentDoc) ==
  IF (set.baseAmount # Undefined \/ set.discount # Undefined) /\ currentDoc # Null
    THEN LET baseAmount == Merged(set.baseAmount, currentDoc.baseAmount)
             discount == Merged(set.discount, currentDoc.discount) IN
         IF GreaterThan(discount, baseAmount) THEN Failed(DiscountMessage)
         ELSE Passed([set EXCEPT !.totalAmount = Minus(baseAmount, discount)])
  ELSE Passed(set)

\* a variant in which the required functions of the owner paths are not
\* enforced on an update
ownerNotRequiredOnUpdate == FALSE

\* required: function () { return !this.subCategoryId } (and the other way
\* round) under runValidators: 'this' is the query, which has neither
\* property, so an owner path that the update sets or unsets is required
ownerRequiredOnUpdate == TRUE

\* the update validators of the amount and owner paths; the discount
\* validator reads this.baseAmount, undefined on the query, and passes
itemPathsErrorOnUpdate(set, unset) ==
  IF set.baseAmount # Undefined /\ ~RequiredOk(set.baseAmount)
    THEN "Base amount is required"
  ELSE IF LessThan(set.baseAmount, Num(0)) THEN "Base amount cannot be negative"
  ELSE IF LessThan(set.discount, Num(0)) THEN "Discount cannot be negative"
  ELSE IF set.totalAmount # Undefined /\ ~RequiredOk(set.totalAmount)
    THEN "Path totalAmount is required."
  ELSE IF LessThan(set.totalAmount, Num(0)) THEN "Total amount cannot be negative"
  ELSE IF (set.categoryId # Undefined \/ "categoryId" \in unset)
          /\ ownerRequiredOnUpdate /\ ~RequiredOk(set.categoryId)
    THEN "Path categoryId is required."
  ELSE IF (set.subCategoryId # Undefined \/ "subCategoryId" \in unset)
          /\ ownerRequiredOnUpdate /\ ~RequiredOk(set.subCategoryId)
    THEN "Path subCategoryId is required."
  ELSE ""

itemUpdateError(set, unset) ==
  IF TextPathsErrorOnUpdate(set, "Item") # "" THEN TextPathsErrorOnUpdate(set, "Item")
  ELSE IF TaxPathsErrorOnUpdate(set, unset) # "" THEN TaxPathsErrorOnUpdate(set, unset)
  ELSE itemPathsErrorOnUpdate(set, unset)

ItemPathsCast(set) ==
  /\ SharedPathsCast(set)
  /\ CastsToNumber(set.baseAmount) /\ CastsToNumber(set.discount)
  /\ CastsToNumber(set.totalAmount)
  /\ CastsToObjectId(set.categoryId) /\ CastsToObjectId(set.subCategoryId)

\* Item.findByIdAndUpdate(id, updateData, {new: true, runValidators: true})
\* and what updateItem answers: the hook runs, then the update is cast,
\* validated, and applied to the document with that id, if there is one
itemFindByIdAndUpdate(docs, id, updateData, unset) ==
  LET hook == preFindOneAndUpdate(updateData, findById(docs, Oid(id))) IN
  IF hook.error # "" THEN Reply(400, hook.error, docs)
  ELSE IF ~ItemPathsCast(hook.set) THEN Reply(404, "Item not found", docs)
  ELSE IF itemUpdateError(hook.set, unset) # ""
    THEN Reply(400, itemUpdateError(hook.set, unset), docs)
  ELSE IF findById(docs, Oid(id)) = Null THEN Reply(404, "Item not found", docs)
  ELSE LET doc == ApplyUpdate(docs[id], hook.set, unset) IN
       IF ItemNameTaken(docs, doc, id) THEN Reply(400, ItemDuplicateMessage, docs)
       ELSE Reply(200, "Item updated successfully", Replace(docs, id, doc))

\* updateData.$unset as updateItem builds it
ItemUpdateUnset(body) ==
  (IF body.subCategoryId # Undefined THEN {"categoryId"}
   ELSE IF body.categoryId # Undefined THEN {"subCategoryId"} ELSE {})
  \cup TaxUpdateUnset(body)

\* a variant of ItemUpdateSet that takes a totalAmount of the body as it is
ItemUpdateSetVerbatim(body, totalAmount) ==
  [name |-> body.name, image |-> body.image, description |-> body.description,
   taxApplicability |-> body.taxApplicability,
   tax |-> TaxUpdateSet(body, "tax"), taxType |-> TaxUpdateSet(body, "taxType"),
   baseAmount |-> body.baseAmount, discount |-> body.discount,
   totalAmount |-> IF "totalAmount" \in DOMAIN body THEN body.totalAmount
                   ELSE totalAmount,
   categoryId |-> body.categoryId, subCategoryId |-> body.subCategoryId]

\* updateData without its $unset; totalAmount is the total updateItem computed
ItemUpdateSet(body, totalAmount) ==
  [name |-> body.name, image |-> body.image, description |-> body.description,
   taxApplicability |-> body.taxApplicability,
   tax |-> TaxUpdateSet(body, "tax"), taxType |-> TaxUpdateSet(body, "taxType"),
   baseAmount |-> body.baseAmount, discount |-> body.discount,
   totalAmount |-> totalAmount,
   categoryId |-> body.categoryId, subCategoryId |-> body.subCategoryId]

\* updateItem with docs the stored Items
updateItemOf(docs, id, body) ==
  IF body.categoryId # Undefined /\ body.subCategoryId # Undefined
    THEN Reply(400,
           "Item cannot belong to both category and subcategory simultaneously", docs)
  ELSE IF Truthy(body.categoryId) /\ OwnerMissing(categories, body.categoryId)
    THEN Reply(404, "Category not found", docs)
  ELSE IF Truthy(body.subCategoryId) /\ OwnerMissing(subCategories, body.subCategoryId)
    THEN Reply(404, "Subcategory not found", docs)
  ELSE IF TaxUpdateRefused(body) THEN Reply(400, TaxRequiredMessage, docs)
  ELSE IF body.baseAmount # Undefined \/ body.discount # Undefined
    THEN LET currentItem == findById(docs, Oid(id)) IN
         IF currentItem = Null THEN Reply(404, "Item not found", docs)
         ELSE LET newBaseAmount == Merged(body.baseAmount, currentItem.baseAmount)
                  newDiscount == Merged(body.discount, currentItem.discount)
                  total == calculateTotal(newBaseAmount, newDiscount) IN
              IF total.error # "" THEN Reply(400, total.error, docs)
              ELSE itemFindByIdAndUpdate(docs, id, ItemUpdateSet(body, total.value),
                                         ItemUpdateUnset(body))
  ELSE itemFindByIdAndUpdate(docs, id, ItemUpdateSet(body, Undefined),
                             ItemUpdateUnset(body))

updateItem(id, body) == updateItemOf(items, id, body)

(* ------------------------------ requests ------------------------------ *)
Responded(op, r) == [op |-> op, status |-> r.status, message |-> r.message]

\* the clients that can have an updateItem request under way at the same
\* time, and a client with no request under way
Clients == {"a", "b"}
Idle == [pc |-> "idle"]

Init ==
  /\ categories = <<>>
  /\ subCategories = <<>>
  /\ items = <<>>
  /\ response = [op |-> "none", status |-> 0, message |-> ""]
  /\ inFlight = [c \in Clients |-> Idle]

\* POST /api/categories
PostCategory(body) ==
  /\ Len(categories) < MaxCategories
  /\ LET r == createCategory(body) IN
       /\ categories' = r.docs
       /\ response' = Responded("createCategory", r)
  /\ UNCHANGED <<subCategories, items, inFlight>>

\* a variant of PutCategory under which the subcategories of the category
\* follow its tax fields
PutCategoryLive(id, body) ==
  LET r == updateCategory(id, body) IN
  /\ categories' = r.docs
  /\ subCategories' =
        [k \in 1 .. Len(subCategories) |->
           IF r.status = 200 /\ subCategories[k].categoryId = Oid(id)
             THEN [subCategories[k] EXCEPT
                     !.taxApplicability = r.docs[id].taxApplicability,
                     !.tax = r.docs[id].tax, !.taxType = r.docs[id].taxType]
             ELSE subCategories[k]]
  /\ response' = Responded("updateCategory", r)
  /\ UNCHANGED <<items, inFlight>>

\* PUT /api/categories/:id
PutCategory(id, body) ==
  /\ LET r == updateCategory(id, body) IN
       /\ categories' = r.docs
       /\ response' = Responded("updateCategory", r)
  /\ UNCHANGED <<subCategories, items, inFlight>>

\* POST /api/subcategories/:categoryId
PostSubCategory(categoryId, body) ==
  /\ Len(subCategories) < MaxSubCategories
  /\ LET r == createSubCategory(categoryId, body) IN
       /\ subCategories' = r.docs
       /\ response' = Responded("createSubCategory", r)
  /\ UNCHANGED <<categories, items, inFlight>>

\* PUT /api/subcategories/:id
PutSubCategory(id, body) ==
  /\ LET r == updateSubCategory(id, body) IN
       /\ subCategories' = r.docs
       /\ response' = Responded("updateSubCategory", r)
  /\ UNCHANGED <<categories, items, inFlight>>

\* POST /api/items
PostItem(body) ==
  /\ Len(items) < MaxItems
  /\ LET r == createItem(body) IN
       /\ items' = r.docs
       /\ response' = Responded("createItem", r)
  /\ UNCHANGED <<categories, subCategories, inFlight>>

\* PUT /api/items/:id
PutItem(id, body) ==
  /\ LET r == updateItem(id, body) IN
       /\ items' = r.docs
       /\ response' = Responded("updateItem", r)
  /\ UNCHANGED <<categories, subCategories, inFlight>>

\* one request at a time, with bodies drawn from the given sets
Requests(categoryPosts, categoryPuts, subCategoryPosts, subCategoryPuts, itemPosts, itemPuts) ==
  \/ \E body \in categoryPosts : PostCategory(body)
  \/ \E id \in Ids(categories), body \in categoryPuts : PutCategory(id, body)
  \/ \E categoryId \in Ids(categories), body \in subCategoryPosts :
        PostSubCategory(categoryId, body)
  \/ \E id \in Ids(subCategories), body \in subCategoryPuts : PutSubCategory(id, body)
  \/ \E body \in itemPosts : PostItem(body)
  \/ \E id \in Ids(items), body \in itemPuts : PutItem(id, body)

(* ------------------------- failures of the store ---------------------- *)
\* an error of the driver that no handler expects, thrown by an await
StoreError == [name |-> "MongoNetworkError", code |-> 0, message |-> "connection closed"]

Handlers ==
  {"createCategory", "updateCategory", "createSubCategory", "updateSubCategory",
   "createItem", "updateItem"}

DuplicateMessageOf(op) ==
  IF op \in {"createCategory", "updateCategory"}
    THEN "Category with this name already exists"
  ELSE IF op \in {"createSubCategory", "updateSubCategory"}
    THEN "Subcategory with this name already exists in this category"
  ELSE ItemDuplicateMessage

NotFoundMessageOf(op) ==
  IF op = "updateCategory" THEN "Category not found"
  ELSE IF op = "updateSubCategory" THEN "Subcategory not found"
  ELSE "Item not found"

\* the catch block of a handler: a duplicate key is answered 400, a
\* CastError in an update handler 404, and every other error 400 with the
\* message of the error
Caught(op, error) ==
  IF error.code = 11000 THEN [status |-> 400, message |-> DuplicateMessageOf(op)]
  ELSE IF op \in {"updateCategory", "updateSubCategory", "updateItem"}
          /\ error.name = "CastError"
    THEN [status |-> 404, message |-> NotFoundMessageOf(op)]
  ELSE [status |-> 400, message |-> error.message]

\* a request whose first await on the store throws StoreError
StoreFails(op) ==
  /\ response' = [op |-> op, status |-> Caught(op, StoreError).status,
                  message |-> Caught(op, StoreError).message]
  /\ UNCHANGED <<categories, subCategories, items, inFlight>>

(* --------------------------- request bodies --------------------------- *)
Absent == {Undefined}
Image == {Str("a.jpg")}
Description == {Str("a dish")}

\* the bodies of the category and subcategory handlers; a body that may
\* leave the name out (a PUT) leaves image and description out
TaxedBodies(names, taxApplicabilities, taxes, taxTypes) ==
  [name : names, image : IF Undefined \in names THEN Absent ELSE Image,
   description : IF Undefined \in names THEN Absent ELSE Description,
   taxApplicability : taxApplicabilities, tax : taxes, taxType : taxTypes]

\* the bodies of the item handlers
ItemBodies(names, taxApplicabilities, taxes, taxTypes, baseAmounts, discounts, categoryIds, subCategoryIds) ==
  [name : names, image : IF Undefined \in names THEN Absent ELSE Image,
   description : IF Undefined \in names THEN Absent ELSE Description,
   taxApplicability : taxApplicabilities, tax : taxes, taxType : taxTypes,
   baseAmount : baseAmounts, discount : discounts,
   categoryId : categoryIds, subCategoryId : subCategoryIds]

NotTaxable == {Bool(FALSE)}
EmptyPut == TaxedBodies(Absent, Absent, Absent, Absent)
EmptyItemPut == ItemBodies(Absent, Absent, Absent, Absent, Absent, Absent, Absent, Absent)

(* Tax: every combination of a missing, a null and a valid value of the    *)
(* three tax fields, on one category, its subcategories and one item.      *)
TaxApplicabilities == {Undefined, Bool(TRUE), Bool(FALSE)}
Taxes == {Undefined, Null, Num(5)}
TaxTypes == {Undefined, Str("percentage"), Str("fixed")}

TaxPosts(name) == TaxedBodies({Str(name)}, TaxApplicabilities, Taxes, TaxTypes)
TaxPuts == TaxedBodies(Absent, TaxApplicabilities, Taxes, TaxTypes)

TaxItemPosts ==
  ItemBodies({Str("Carbonara")}, {Bool(TRUE)}, {Num(5)}, {Str("percentage")},
             {Num(18990)}, {Num(2000)}, {Oid(1)}, Absent)

TaxItemPuts ==
  ItemBodies(Absent, Absent, {Undefined, Num(5)}, Absent,
             Absent, Absent, Absent, Absent)

Next ==
  Requests(TaxPosts("Main"), TaxPuts, TaxPosts("Pasta"), TaxPuts,
           TaxItemPosts, TaxItemPuts)

Spec == Init /\ [][Next]_vars

(* Amounts: baseAmount and discount missing, null, not a number, negative, *)
(* whole and with a third decimal, on items of one category and one        *)
(* subcategory.                                                            *)
Amounts == {Undefined, Null, Str("12"), Num(-1000), Num(0), Num(1000), Num(1004)}

AmountItemPosts ==
  ItemBodies({Str("Carbonara")}, NotTaxable, Absent, Absent, Amounts, Amounts,
             {Undefined, Oid(1)}, {Undefined, Oid(1)})

AmountItemPuts ==
  ItemBodies(Absent, Absent, Absent, Absent, Amounts, Amounts, Absent, Absent)

NextAmount ==
  Requests(TaxedBodies({Str("Main")}, NotTaxable, Absent, Absent), EmptyPut,
           TaxedBodies({Str("Pasta")}, Absent, Absent, Absent), EmptyPut,
           AmountItemPosts, AmountItemPuts)

SpecAmount == Init /\ [][NextAmount]_vars

(* Owners: categoryId and subCategoryId missing, null, empty, stored and   *)
(* not stored, on items of two categories and their subcategories.         *)
OwnerIds == 1 .. 3
Owners == {Undefined, Null, Str("")} \cup {Oid(k) : k \in OwnerIds}

OwnerItemPosts ==
  ItemBodies({Str("Carbonara")}, NotTaxable, Absent, Absent, {Num(18990)}, Absent,
             Owners, Owners)

OwnerItemPuts ==
  ItemBodies({Undefined, Str("Penne")}, Absent, Absent, Absent, Absent, Absent,
             Owners, Owners)

NextOwner ==
  Requests(TaxedBodies({Str("Main"), Str("Sides")}, NotTaxable, Absent, Absent), EmptyPut,
           TaxedBodies({Str("Pasta")}, Absent, Absent, Absent), EmptyPut,
           OwnerItemPosts, OwnerItemPuts)

SpecOwner == Init /\ [][NextOwner]_vars

(* Names: two names for the records of each kind, created and renamed,    *)
(* with the items under the first category or the first subcategory.       *)
Renames(names) == TaxedBodies(names, Absent, Absent, Absent)

NameItemPosts ==
  ItemBodies({Str("Carbonara"), Str("Penne")}, NotTaxable, Absent, Absent, {Num(18990)},
             Absent, {Undefined, Oid(1)}, {Undefined, Oid(1)})

NameItemPuts ==
  ItemBodies({Str("Penne")}, Absent, Absent, Absent, Absent, Absent, Absent, Absent)

NextName ==
  Requests(TaxedBodies({Str("Main"), Str("Sides")}, NotTaxable, Absent, Absent),
           Renames({Str("Sides")}),
           TaxedBodies({Str("Pasta"), Str("Rice")}, Absent, Absent, Absent),
           Renames({Str("Rice")}), NameItemPosts, NameItemPuts)

SpecName == Init /\ [][NextName]_vars

(* Total: item requests that carry a totalAmount of their own.             *)
Totals == {Null, Num(-5000), Num(999000)}

\* the body of a request with a totalAmount added to it
WithTotal(body, totalAmount) ==
  [f \in DOMAIN body \cup {"totalAmount"} |->
     IF f = "totalAmount" THEN totalAmount ELSE body[f]]

TotalItemPosts ==
  {WithTotal(body, t) :
     body \in ItemBodies({Str("Carbonara"), Str("Penne")}, NotTaxable, Absent, Absent,
                         {Num(1000), Num(1004)}, {Undefined, Num(1000)},
                         {Oid(1)}, Absent),
     t \in Totals}

TotalItemPuts ==
  {WithTotal(body, t) :
     body \in ItemBodies(Absent, Absent, Absent, Absent,
                         {Undefined, Num(1000), Num(1004)}, {Undefined, Num(0)},
                         Absent, Absent),
     t \in Totals}

NextTotal ==
  Requests(TaxedBodies({Str("Main")}, NotTaxable, Absent, Absent), EmptyPut,
           TaxedBodies({Str("Pasta")}, Absent, Absent, Absent), EmptyPut,
           TotalItemPosts, TotalItemPuts)

SpecTotal == Init /\ [][NextTotal]_vars

(* Parent: updates of a subcategory that carry a categoryId.               *)
\* the body of a request with a categoryId added to it
WithParent(body, categoryId) ==
  [f \in DOMAIN body \cup {"categoryId"} |->
     IF f = "categoryId" THEN categoryId ELSE body[f]]

ParentPuts ==
  {WithParent(body, categoryId) :
     body \in Renames({Str("Rice")}) \cup EmptyPut
              \cup TaxedBodies(Absent, {Bool(TRUE)}, {Num(5)}, {Str("fixed")}),
     categoryId \in {Null, Oid(1), Oid(2), Oid(3)}}

NextParent ==
  Requests(TaxedBodies({Str("Main"), Str("Sides")}, NotTaxable, Absent, Absent), EmptyPut,
           TaxedBodies({Str("Pasta"), Str("Rice")}, Absent, Absent, Absent), ParentPuts,
           TaxItemPosts, EmptyItemPut)

SpecParent == Init /\ [][NextParent]_vars

(* Calculate: calculateTotal on its own, with arguments of every kind.     *)
CalculateArguments ==
  {Undefined, Null, Str("12"), NaN, Infinity, MinusInfinity,
   Num(-1000), Num(0), Num(1000), Num(1004), Num(1006), Num(18990)}

\* a call of calculateTotal; the response keeps the arguments, the message
\* of the error thrown and the value returned
Calculate(baseAmount, discount) ==
  /\ LET r == calculateTotal(baseAmount, discount) IN
       response' = [op |-> "calculateTotal", status |-> 0, message |-> r.error,
                    baseAmount |-> baseAmount, discount |-> discount,
                    value |-> r.value]
  /\ UNCHANGED <<categories, subCategories, items, inFlight>>

NextCalculate ==
  \E baseAmount \in CalculateArguments, discount \in CalculateArguments :
     Calculate(baseAmount, discount)

SpecCalculate == Init /\ [][NextCalculate]_vars

(* Fixed: taxable records with a fixed tax, below and above 100.           *)
FixedTaxes == {Num(5), Num(150)}

FixedPosts(name) ==
  TaxedBodies({Str(name)}, {Bool(TRUE)}, FixedTaxes, {Str("fixed"), Str("percentage")})

FixedPuts == TaxedBodies(Absent, {Undefined, Bool(TRUE)}, FixedTaxes, {Str("fixed")})

FixedItemPosts ==
  ItemBodies({Str("Carbonara"), Str("Penne")}, {Bool(TRUE)}, FixedTaxes, {Str("fixed")},
             {Num(18990)}, Absent, {Oid(1)}, Absent)

FixedItemPuts ==
  ItemBodies(Absent, {Undefined, Bool(TRUE)}, FixedTaxes, {Str("fixed")},
             Absent, Absent, Absent, Absent)

NextFixed ==
  Requests(FixedPosts("Main") \cup FixedPosts("Sides"), FixedPuts, FixedPosts("Pasta"),
           FixedPuts, FixedItemPosts, FixedItemPuts)

SpecFixed == Init /\ [][NextFixed]_vars

(* Zero: taxable records with a tax of 0.                                   *)
ZeroTaxes == {Num(0), Num(5)}

ZeroPosts(name) ==
  TaxedBodies({Str(name)}, {Bool(TRUE)}, ZeroTaxes, {Str("fixed"), Str("percentage")})

ZeroPuts ==
  TaxedBodies(Absent, {Undefined, Bool(TRUE)}, ZeroTaxes, {Str("fixed"), Str("percentage")})

ZeroItemPosts ==
  ItemBodies({Str("Carbonara"), Str("Penne")}, {Bool(TRUE)}, ZeroTaxes,
             {Str("fixed"), Str("percentage")}, {Num(18990)}, Absent, {Oid(1)}, Absent)

ZeroItemPuts ==
  ItemBodies(Absent, {Undefined, Bool(TRUE)}, ZeroTaxes, {Str("fixed"), Str("percentage")},
             Absent, Absent, Absent, Absent)

NextZero ==
  Requests(ZeroPosts("Main"), ZeroPuts, ZeroPosts("Pasta"), ZeroPuts,
           ZeroItemPosts, ZeroItemPuts)

SpecZero == Init /\ [][NextZero]_vars

(* Race: two clients update the amounts of the same item at the same time. *)
(* An updateItem that supplies an amount awaits the store three times:     *)
(* Item.findById in the handler, findOne in the pre('findOneAndUpdate')    *)
(* hook, and the findOneAndUpdate itself; the requests of other clients    *)
(* run in between.                                                          *)

\* the answer r ends the request of client c
Answered(c, r) ==
  /\ response' = Responded("updateItem", r)
  /\ inFlight' = [inFlight EXCEPT ![c] = Idle]

\* PUT /api/items/:id arrives; with no owner and no tax field in the body
\* the handler reaches its first await without asking the store anything
Begin(c, id, body) ==
  /\ inFlight[c] = Idle
  /\ inFlight' = [inFlight EXCEPT ![c] = [pc |-> "findById", id |-> id, body |-> body]]
  /\ UNCHANGED <<categories, subCategories, items, response>>

\* await Item.findById(req.params.id), and the total computed from it
FindCurrentItem(c) ==
  /\ inFlight[c].pc = "findById"
  /\ LET body == inFlight[c].body
         currentItem == findById(items, Oid(inFlight[c].id)) IN
     IF currentItem = Null THEN Answered(c, Reply(404, "Item not found", items))
     ELSE LET total == calculateTotal(Merged(body.baseAmount, currentItem.baseAmount),
                                      Merged(body.discount, currentItem.discount)) IN
          IF total.error # "" THEN Answered(c, Reply(400, total.error, items))
          ELSE /\ inFlight' = [inFlight EXCEPT ![c] =
                                 [pc |-> "findOne", id |-> inFlight[c].id, body |-> body,
                                  updateData |-> ItemUpdateSet(body, total.value)]]
               /\ UNCHANGED response
  /\ UNCHANGED <<categories, subCategories, items>>

\* Item.findByIdAndUpdate, up to the command it sends: the hook's await
\* this.model.findOne(this.getQuery()), and the update validators
HookFindOne(c) ==
  /\ inFlight[c].pc = "findOne"
  /\ LET hook == preFindOneAndUpdate(inFlight[c].updateData,
                                     findById(items, Oid(inFlight[c].id)))
         unset == ItemUpdateUnset(inFlight[c].body) IN
     IF hook.error # "" THEN Answered(c, Reply(400, hook.error, items))
     ELSE IF ~ItemPathsCast(hook.set) THEN Answered(c, Reply(404, "Item not found", items))
     ELSE IF itemUpdateError(hook.set, unset) # ""
       THEN Answered(c, Reply(400, itemUpdateError(hook.set, unset), items))
     ELSE /\ inFlight' = [inFlight EXCEPT ![c] =
                            [pc |-> "findOneAndUpdate", id |-> inFlight[c].id,
                             body |-> inFlight[c].body, updateData |-> hook.set]]
          /\ UNCHANGED response
  /\ UNCHANGED <<categories, subCategories, items>>

\* the findOneAndUpdate command, which the store applies in one step
FindOneAndUpdate(c) ==
  /\ inFlight[c].pc = "findOneAndUpdate"
  /\ LET id == inFlight[c].id IN
     IF findById(items, Oid(id)) = Null
       THEN Answered(c, Reply(404, "Item not found", items)) /\ UNCHANGED items
     ELSE LET doc == ApplyUpdate(items[id], inFlight[c].updateData,
                                 ItemUpdateUnset(inFlight[c].body)) IN
          IF ItemNameTaken(items, doc, id)
            THEN Answered(c, Reply(400, ItemDuplicateMessage, items)) /\ UNCHANGED items
          ELSE /\ items' = Replace(items, id, doc)
               /\ Answered(c, Reply(200, "Item updated successfully", items))
  /\ UNCHANGED <<categories, subCategories>>

RaceItemPosts ==
  ItemBodies({Str("Carbonara")}, NotTaxable, Absent, Absent, {Num(2000), Num(18990)},
             {Undefined, Num(1000)}, {Oid(1)}, Absent)

\* client a supplies only baseAmount, client b only discount
RacePuts(c) ==
  IF c = "a"
    THEN ItemBodies(Absent, Absent, Absent, Absent, {Num(1000), Num(5000)}, Absent,
                    Absent, Absent)
    ELSE ItemBodies(Absent, Absent, Absent, Absent, Absent, {Num(0), Num(3000)},
                    Absent, Absent)

NextRace ==
  \/ \E body \in TaxedBodies({Str("Main")}, NotTaxable, Absent, Absent) : PostCategory(body)
  \/ \E body \in RaceItemPosts : PostItem(body)
  \/ \E c \in Clients, id \in 1 .. Len(items) : \E body \in RacePuts(c) : Begin(c, id, body)
  \/ \E c \in Clients : FindCurrentItem(c)
  \/ \E c \in Clients : HookFindOne(c)
  \/ \E c \in Clients : FindOneAndUpdate(c)

SpecRace == Init /\ [][NextRace]_vars

(* Order: createItem with bodies that fail one or more of its checks.      *)
OrderOwners == {Undefined, Oid(1), Oid(3)}

OrderItemPosts ==
  ItemBodies({Str("Carbonara")}, TaxApplicabilities, {Undefined, Num(5)}, {Str("fixed")},
             {Num(18990)}, Absent, OrderOwners, OrderOwners)
  \cup ItemBodies({Undefined}, {Bool(TRUE)}, Absent, Absent, {Num(18990)}, Absent,
                  OrderOwners, OrderOwners)

NextOrder ==
  Requests(TaxedBodies({Str("Main")}, NotTaxable, Absent, Absent), EmptyPut,
           TaxedBodies({Str("Pasta")}, Absent, Absent, Absent), EmptyPut,
           OrderItemPosts, TaxItemPuts)

SpecOrder == Init /\ [][NextOrder]_vars

(* Failures: the requests of Names, each of which the store may fail.     *)
NextFailure == NextName \/ \E op \in Handlers : StoreFails(op)

SpecFailure == Init /\ [][NextFailure]_vars

(* ------------------------------- claims ------------------------------- *)
\* the ids of the stored documents
Stored(docs) == 1 .. Len(docs)

\* an update body that supplies nothing but the given fields
ItemPut(fields) ==
  [f \in {"name", "image", "description", "taxApplicability", "tax", "taxType",
          "baseAmount", "discount", "categoryId", "subCategoryId"} |->
     IF f \in DOMAIN fields THEN fields[f] ELSE Undefined]

\* C1: every stored Item has totalAmount = round2(baseAmount - discount),
\* also when the amounts carry a third decimal.  The code does not keep this:
\* the pre-save and pre-findOneAndUpdate hooks write the unrounded difference.
C1_TotalIsRounded ==
  \A i \in Stored(items) :
     items[i].totalAmount = toFixed2(Minus(items[i].baseAmount, items[i].discount))

\* C2: an update that supplies only one of baseAmount / discount derives the
\* new totalAmount, as calculateTotal does, from the supplied value and the
\* stored value of the other field, and leaves that other field as stored.
\* The code does not keep this: the hook replaces the derived total (C1).
C2_TotalFromMergedPair ==
  \A id \in Stored(items), body \in AmountItemPuts :
     LET r == updateItem(id, body)
         newBaseAmount == Merged(body.baseAmount, items[id].baseAmount)
         newDiscount == Merged(body.discount, items[id].discount) IN
     ((body.baseAmount = Undefined) # (body.discount = Undefined)) /\ r.status = 200
     => /\ r.docs[id].totalAmount = calculateTotal(newBaseAmount, newDiscount).value
        /\ r.docs[id].baseAmount = newBaseAmount
        /\ r.docs[id].discount = newDiscount

\* the update bodies of C3: amounts of every kind, with and without an owner
\* (stored or not) and a taxApplicability that lacks its tax fields
C3Puts ==
  ItemBodies(Absent, {Undefined, Bool(TRUE)}, Absent, Absent, Amounts, Amounts,
             {Undefined, Oid(1), Oid(2)}, {Undefined, Oid(1)})

\* the merged values of an update have discount > baseAmount
MergedDiscountExceeds(id, body) ==
  GreaterThan(Merged(body.discount, items[id].discount),
              Merged(body.baseAmount, items[id].baseAmount))

\* C3 as claimed: every update whose merged values have discount > baseAmount
\* is answered 400 with the message 'Discount cannot be greater than base
\* amount' and leaves the stored item as it was.
C3_DiscountMessageAlways ==
  \A id \in Stored(items), body \in C3Puts :
     MergedDiscountExceeds(id, body)
     => LET r == updateItem(id, body) IN
        r.status = 400 /\ r.message = DiscountMessage /\ r.docs = items

\* the checks of updateItem that come before the amounts: not both owner
\* fields, a supplied owner that is stored, tax fields with taxApplicability
PassesOwnerAndTaxChecks(body) ==
  /\ body.categoryId = Undefined \/ body.subCategoryId = Undefined
  /\ ~(Truthy(body.categoryId) /\ OwnerMissing(categories, body.categoryId))
  /\ ~(Truthy(body.subCategoryId) /\ OwnerMissing(subCategories, body.subCategoryId))
  /\ ~TaxUpdateRefused(body)

\* C3, amended: every update whose merged values have discount > baseAmount
\* is refused (400 or 404) and leaves the stored item as it was; when the
\* body passes the owner and tax checks and the merged baseAmount is not
\* negative, the answer is 400 with the message 'Discount cannot be greater
\* than base amount'.
C3_DiscountRefused ==
  \A id \in Stored(items), body \in C3Puts :
     MergedDiscountExceeds(id, body)
     => LET r == updateItem(id, body) IN
        /\ r.status \in {400, 404}
        /\ r.docs = items
        /\ (PassesOwnerAndTaxChecks(body)
            /\ ~LessThan(Merged(body.baseAmount, items[id].baseAmount), Num(0)))
           => r.status = 400 /\ r.message = DiscountMessage

\* C3 happens: an update of a stored item was refused with that message
C3_Witness ==
  /\ Len(items) > 0
  /\ response = [op |-> "updateItem", status |-> 400, message |-> DiscountMessage]

\* C4: every stored Item has 0 <= discount <= baseAmount.
C4_DiscountWithinBase ==
  \A i \in Stored(items) :
     /\ IsNumber(items[i].baseAmount) /\ IsNumber(items[i].discount)
     /\ 0 <= items[i].discount.val
     /\ items[i].discount.val <= items[i].baseAmount.val

\* C4 happens: an update was accepted and left an item with a discount
C4_Witness ==
  /\ response.op = "updateItem" /\ response.status = 200
  /\ \E i \in Stored(items) :
        items[i].discount.val > 0 /\ items[i].discount.val < items[i].baseAmount.val

\* a stored item has one owner: an id in one of the two owner fields, and
\* nothing in the other
ExactlyOneOwner(doc) ==
  \/ doc.categoryId.type = "objectid" /\ doc.subCategoryId = Undefined
  \/ doc.subCategoryId.type = "objectid" /\ doc.categoryId = Undefined

\* C5: every stored Item has exactly one of categoryId / subCategoryId, and
\* so has the item every accepted createItem or updateItem leaves, also when
\* the body carries an owner field that is null or empty; a create that
\* names both owners or neither is answered 400, and so is an update that
\* supplies both owner fields.
C5_ExactlyOneOwner ==
  /\ \A i \in Stored(items) : ExactlyOneOwner(items[i])
  /\ \A body \in OwnerItemPosts :
        LET r == createItem(body) IN
        /\ r.status = 201 => ExactlyOneOwner(r.docs[Len(r.docs)])
        /\ Truthy(body.categoryId) = Truthy(body.subCategoryId) => r.status = 400
  /\ \A id \in Stored(items), body \in OwnerItemPuts :
        LET r == updateItem(id, body) IN
        /\ r.status = 200 => ExactlyOneOwner(r.docs[id])
        /\ body.categoryId # Undefined /\ body.subCategoryId # Undefined
           => r.status = 400

\* C5 happens: an update was accepted with an item of a category and an
\* item of a subcategory stored
C5_Witness ==
  /\ response.op = "updateItem" /\ response.status = 200
  /\ \E i, j \in Stored(items) :
        items[i].categoryId # Undefined /\ items[j].subCategoryId # Undefined

\* C6: an update that supplies the id of a stored Category for an item of a
\* SubCategory leaves the item with that categoryId and no subCategoryId,
\* and the other way round.  The code does not do this: the update
\* validators refuse the update that unsets the other owner field.
C6_OwnerSwitches ==
  \A id \in Stored(items) :
     /\ \A k \in Stored(categories) :
           items[id].subCategoryId # Undefined
           => LET doc == updateItem(id, ItemPut([categoryId |-> Oid(k)])).docs[id] IN
              doc.categoryId = Oid(k) /\ doc.subCategoryId = Undefined
     /\ \A k \in Stored(subCategories) :
           items[id].categoryId # Undefined
           => LET doc == updateItem(id, ItemPut([subCategoryId |-> Oid(k)])).docs[id] IN
              doc.subCategoryId = Oid(k) /\ doc.categoryId = Undefined

\* an owner field carries a well-formed id that is not stored
Unresolved(docs, id) == id.type = "objectid" /\ id.val \notin Stored(docs)

\* a body names an owner that is not stored
UnresolvedOwner(body) ==
  Unresolved(categories, body.categoryId) \/ Unresolved(subCategories, body.subCategoryId)

\* the bodies of createSubCategory, with and without the name
C7SubCategoryPosts ==
  TaxedBodies({Str("Pasta")}, Absent, Absent, Absent) \cup EmptyPut

PassesCreateItemChecks(body) ==
  /\ Truthy(body.name) /\ Truthy(body.image) /\ Truthy(body.description)
  /\ body.taxApplicability # Undefined /\ body.baseAmount # Undefined
  /\ Truthy(body.categoryId) # Truthy(body.subCategoryId)
  /\ ~(Truthy(body.taxApplicability) /\ TaxFieldsMissing(body.tax, body.taxType))

TaxFields == {"taxApplicability", "tax", "taxType"}

\* the tax fields a body supplies
SuppliedTaxFields(body) == {f \in TaxFields : body[f] # Undefined}

C9_ChildrenUnchanged ==
  [][/\ response'.op = "updateCategory"
        => subCategories' = subCategories /\ items' = items
     /\ response'.op = "updateSubCategory" => items' = items]_vars

\* C9 happens: a category was updated, and a subcategory of it, with an
\* item stored, does not carry the tax fields the category has now
C9_Witness ==
  /\ response.op = "updateCategory" /\ response.status = 200
  /\ Len(items) > 0
  /\ \E k \in Stored(subCategories) :
        LET parentCategory == findById(categories, subCategories[k].categoryId) IN
        \E f \in TaxFields : subCategories[k][f] # parentCategory[f]

\* I1 on a document as it is read
TaxFieldsValid(doc) ==
  doc.taxApplicability = Bool(TRUE)
  => /\ IsNumber(doc.tax) /\ 0 <= doc.tax.val
     /\ doc.taxType \in {Str("percentage"), Str("fixed")}
     /\ doc.taxType = Str("percentage") => doc.tax.val <= 100

\* C10: every stored Category, SubCategory and Item with taxApplicability
\* true has a tax that is a number >= 0, at most 100 when taxType is
\* percentage, and a taxType of percentage or fixed.  The code does not keep
\* this: an update that supplies tax: null without taxApplicability is
\* accepted on a taxable record.
C10_TaxFieldsValid ==
  /\ \A k \in Stored(categories) : TaxFieldsValid(applyDefaults(categories[k]))
  /\ \A k \in Stored(subCategories) : TaxFieldsValid(applyDefaults(subCategories[k]))
  /\ \A k \in Stored(items) : TaxFieldsValid(applyDefaults(items[k]))

\* I2 on a stored document: not taxable, so neither tax nor taxType
TaxFieldsCleared(doc) ==
  doc.taxApplicability = Bool(FALSE) => IsNullish(doc.tax) /\ IsNullish(doc.taxType)

\* C11: every stored Category, SubCategory and Item with taxApplicability
\* false has neither tax nor taxType, whatever the requests supplied.  The
\* code does not keep this: a document constructed without a taxType gets
\* the schema default, a SubCategory takes the tax fields of its parent, and
\* an update writes a supplied tax whatever the stored taxApplicability is.
C11_TaxFieldsCleared ==
  /\ \A k \in Stored(categories) : TaxFieldsCleared(categories[k])
  /\ \A k \in Stored(subCategories) : TaxFieldsCleared(subCategories[k])
  /\ \A k \in Stored(items) : TaxFieldsCleared(items[k])

\* a document that is not taxable and has no tax fields
NotTaxableAndCleared(doc) ==
  doc.taxApplicability = Bool(FALSE) /\ doc.tax = Undefined /\ doc.taxType = Undefined

\* the update bodies of C12: taxApplicability false, with and without tax
\* and taxType
C12Puts == TaxedBodies(Absent, NotTaxable, Taxes, TaxTypes)

\* the same for an item, with and without the id of a stored owner
C12ItemPuts ==
  { body \in ItemBodies(Absent, NotTaxable, Taxes, TaxTypes, Absent, Absent,
                        {Undefined} \cup {Oid(k) : k \in Stored(categories)},
                        {Undefined} \cup {Oid(k) : k \in Stored(subCategories)}) :
      body.categoryId = Undefined \/ body.subCategoryId = Undefined }

\* C12 for the Categories and the SubCategories
C12_CategoriesCleared ==
  /\ \A id \in Stored(categories), body \in C12Puts :
        categories[id].taxApplicability = Bool(TRUE)
        => NotTaxableAndCleared(updateCategory(id, body).docs[id])
  /\ \A id \in Stored(subCategories), body \in C12Puts :
        subCategories[id].taxApplicability = Bool(TRUE)
        => NotTaxableAndCleared(updateSubCategory(id, body).docs[id])

\* C12: an update that supplies taxApplicability false on a record stored as
\* taxable leaves it not taxable and without tax and taxType, also when the
\* body supplies tax or taxType and, for an Item, also when the body names
\* an owner.  The code does not do this for an Item whose update names an
\* owner: that update is refused (C6).
C12_SwitchedOffCleared ==
  /\ C12_CategoriesCleared
  /\ \A id \in Stored(items), body \in C12ItemPuts :
        items[id].taxApplicability = Bool(TRUE)
        => NotTaxableAndCleared(updateItem(id, body).docs[id])

\* a request resolves to taxable without one of the two tax fields
TaxableWithout(taxApplicability, tax, taxType) ==
  taxApplicability = Bool(TRUE) /\ (IsNullish(tax) \/ IsNullish(taxType))

\* the same of a body alone
BodyTaxableWithout(body) == TaxableWithout(body.taxApplicability, body.tax, body.taxType)

\* a tax field of a createSubCategory as it resolves: the body's value, or
\* the value read from the parent
Resolved(body, parentCategory, f) ==
  IF body[f] # Undefined THEN body[f] ELSE parentCategory[f]

\* item bodies that are taxable, with and without tax, taxType and an owner
C13ItemBodies(names, baseAmounts) ==
  ItemBodies(names, {Bool(TRUE)}, Taxes, TaxTypes, baseAmounts, Absent,
             {Undefined, Oid(1)}, {Undefined, Oid(1)})

\* C13 but for updateItem: a create or update that resolves to
\* taxApplicability true without a tax or without a taxType (resolved from
\* the body and the parent for createSubCategory, from the body alone
\* elsewhere) is answered 400 and writes nothing.
C13_OtherHandlers ==
  /\ \A body \in TaxPosts("Main") :
        BodyTaxableWithout(body)
        => LET r == createCategory(body) IN r.status = 400 /\ r.docs = categories
  /\ \A k \in Stored(categories), body \in TaxPosts("Pasta") :
        LET parentCategory == findById(categories, Oid(k)) IN
        TaxableWithout(Resolved(body, parentCategory, "taxApplicability"),
                       Resolved(body, parentCategory, "tax"),
                       Resolved(body, parentCategory, "taxType"))
        => LET r == createSubCategory(k, body) IN
           r.status = 400 /\ r.docs = subCategories
  /\ \A body \in C13ItemBodies({Str("Carbonara")}, {Num(18990)}) :
        BodyTaxableWithout(body)
        => LET r == createItem(body) IN r.status = 400 /\ r.docs = items
  /\ \A id \in Ids(categories), body \in TaxPuts :
        BodyTaxableWithout(body)
        => LET r == updateCategory(id, body) IN r.status = 400 /\ r.docs = categories
  /\ \A id \in Ids(subCategories), body \in TaxPuts :
        BodyTaxableWithout(body)
        => LET r == updateSubCategory(id, body) IN
           r.status = 400 /\ r.docs = subCategories

\* C13 as claimed: every such request, an updateItem too, is answered 400
\* and writes nothing.
C13_TaxableAlways400 ==
  /\ C13_OtherHandlers
  /\ \A id \in Ids(items), body \in C13ItemBodies(Absent, Absent) :
        BodyTaxableWithout(body)
        => LET r == updateItem(id, body) IN r.status = 400 /\ r.docs = items

\* C13, amended: every such request is refused and writes nothing; it is
\* answered 400, except that an updateItem which names one owner, and one
\* that is not stored, is answered 404.
C13_TaxableNeedsTaxFields ==
  /\ C13_OtherHandlers
  /\ \A id \in Ids(items), body \in C13ItemBodies(Absent, Absent) :
        BodyTaxableWithout(body)
        => LET r == updateItem(id, body) IN
           /\ r.docs = items
           /\ r.status =
                IF (body.categoryId = Undefined \/ body.subCategoryId = Undefined)
                   /\ UnresolvedOwner(body) THEN 404 ELSE 400

\* C13 happens: an update that makes a stored, not taxable category taxable
\* was refused for its missing tax fields
C13_Witness ==
  /\ response = [op |-> "updateCategory", status |-> 400, message |-> TaxRequiredMessage]
  /\ \E k \in Stored(categories) : categories[k].taxApplicability = Bool(FALSE)

\* C14: a createCategory with a name that is free, an image and a
\* description, and without taxApplicability, is accepted and stores a
\* Category with taxApplicability false and no tax and no taxType.  The code
\* does not do this: createCategory refuses a body without taxApplicability.
C14_DefaultNotTaxable ==
  \A body \in TaxedBodies({Str("Main")}, Absent, Absent, Absent) :
     ~CategoryNameTaken(categories, body.name, 0)
     => LET r == createCategory(body) IN
        r.status = 201 /\ NotTaxableAndCleared(r.docs[Len(r.docs)])

\* the value a field of a record has once every change an update body asks
\* for is made: a supplied text or amount replaces the stored one; with
\* taxApplicability supplied, tax and taxType are the supplied ones when it
\* is truthy and are removed when it is not; an owner replaces the other
\* one; the total follows the two amounts
Requested(doc, body, f) ==
  LET supplied(g) == IF g \in DOMAIN body THEN body[g] ELSE Undefined IN
  IF f \in {"tax", "taxType"} /\ body.taxApplicability # Undefined
    THEN IF Truthy(body.taxApplicability) THEN body[f] ELSE Undefined
  ELSE IF f = "categoryId" /\ supplied("subCategoryId") # Undefined THEN Undefined
  ELSE IF f = "subCategoryId" /\ supplied("categoryId") # Undefined THEN Undefined
  ELSE IF f = "totalAmount"
    THEN IF body.baseAmount = Undefined /\ body.discount = Undefined THEN doc[f]
         ELSE Minus(IF body.baseAmount # Undefined THEN body.baseAmount
                    ELSE doc.baseAmount,
                    IF body.discount # Undefined THEN body.discount ELSE doc.discount)
  ELSE IF supplied(f) # Undefined THEN body[f]
  ELSE doc[f]

\* r answers an update of docs[id]: refused with docs as they were, or
\* accepted with every requested change made to docs[id] and to nothing else
AllOrNothing(docs, id, body, r) ==
  \/ r.status # 200 /\ r.docs = docs
  \/ /\ r.status = 200 /\ Len(r.docs) = Len(docs)
     /\ \A j \in Stored(docs) : j # id => r.docs[j] = docs[j]
     /\ \A f \in DOMAIN docs[id] : r.docs[id][f] = Requested(docs[id], body, f)

\* the update bodies of C15: the tax fields, with and without a new name
C15Puts == TaxPuts \cup TaxPosts("Sides")

C15ItemPuts ==
  ItemBodies(Absent, TaxApplicabilities, {Undefined, Num(5)}, {Undefined, Str("fixed")},
             {Undefined, Num(1000), Num(20000)}, {Undefined, Num(3000)},
             {Undefined, Oid(1)}, Absent)

\* every update, in every state, is all or nothing, and a create that is
\* refused writes nothing
C15_EveryRequest ==
  /\ \A id \in Stored(categories), body \in C15Puts :
        AllOrNothing(categories, id, body, updateCategory(id, body))
  /\ \A id \in Stored(subCategories), body \in C15Puts :
        AllOrNothing(subCategories, id, body, updateSubCategory(id, body))
  /\ \A id \in Stored(items), body \in C15ItemPuts :
        AllOrNothing(items, id, body, updateItem(id, body))
  /\ \A body \in TaxPosts("Main") :
        LET r == createCategory(body) IN r.status # 201 => r.docs = categories
  /\ \A k \in Ids(categories), body \in TaxPosts("Pasta") :
        LET r == createSubCategory(k, body) IN r.status # 201 => r.docs = subCategories
  /\ \A body \in C13ItemBodies({Str("Carbonara")}, {Num(18990)}) :
        LET r == createItem(body) IN r.status # 201 => r.docs = items

\* C15: every update leaves the record as it was or with all the changes of
\* the request made together, and no other record touched; every request
\* that is refused leaves the three collections as they were.
C15_AllOrNothing ==
  /\ []C15_EveryRequest
  /\ [][response'.status \notin {200, 201}
        => UNCHANGED <<categories, subCategories, items>>]_vars

\* C15 happens: an update of a stored category with a fixed tax was refused
C15_Witness ==
  /\ response.op = "updateCategory" /\ response.status = 400
  /\ \E k \in Stored(categories) :
        /\ categories[k].taxApplicability = Bool(TRUE)
        /\ categories[k].taxType = Str("fixed")

\* r answers an update of docs: a second, equal update of what r left is
\* answered as r and leaves it as it is
SameAgain(r, again) == again.status = r.status /\ again.docs = r.docs

\* C16: an update applied a second time, with no other write in between, is
\* answered as the first time and leaves the stored fields as the first
\* application left them, for updateCategory, updateSubCategory and
\* updateItem.
C16_Idempotent ==
  /\ \A id \in Ids(categories), body \in C15Puts :
        LET r == updateCategoryOf(categories, id, body) IN
        SameAgain(r, updateCategoryOf(r.docs, id, body))
  /\ \A id \in Ids(subCategories), body \in C15Puts :
        LET r == updateSubCategoryOf(subCategories, id, body) IN
        SameAgain(r, updateSubCategoryOf(r.docs, id, body))
  /\ \A id \in Ids(items), body \in C15ItemPuts \cup AmountItemPuts :
        LET r == updateItemOf(items, id, body) IN
        SameAgain(r, updateItemOf(r.docs, id, body))

\* C16 happens: an update of the tax of a stored item was accepted
C16_Witness ==
  /\ response.op = "updateItem" /\ response.status = 200
  /\ \E k \in Stored(items) : items[k].tax = Num(5)

\* two documents of a collection are in the same scope and have one name
SameName(docs, i, j, scope) ==
  /\ docs[i].name = docs[j].name
  /\ docs[i][scope] # Undefined /\ docs[i][scope] = docs[j][scope]

\* no two Categories with one name, no two SubCategories of a Category with
\* one name, no two Items of a Category or of a SubCategory with one name
NamesUnique ==
  /\ \A i, j \in Stored(categories) : i # j => categories[i].name # categories[j].name
  /\ \A i, j \in Stored(subCategories) :
        i # j => ~SameName(subCategories, i, j, "categoryId")
  /\ \A i, j \in Stored(items) :
        i # j => ~SameName(items, i, j, "categoryId")
                 /\ ~SameName(items, i, j, "subCategoryId")

\* r refuses a request for its name and leaves docs as they were
Duplicate(r, message, docs) == r.status = 400 /\ r.message = message /\ r.docs = docs

\* a create or a rename whose name is taken in its scope is refused as a
\* duplicate
C17_NameConflictsRefused ==
  /\ \A body \in TaxedBodies({Str("Main"), Str("Sides")}, NotTaxable, Absent, Absent) :
        (\E k \in Stored(categories) : categories[k].name = body.name)
        => Duplicate(createCategory(body), "Category with this name already exists",
                     categories)
  /\ \A id \in Stored(categories), body \in Renames({Str("Main"), Str("Sides")}) :
        (\E k \in Stored(categories) \ {id} : categories[k].name = body.name)
        => Duplicate(updateCategory(id, body), "Category with this name already exists",
                     categories)
  /\ \A body \in Renames({Str("Pasta"), Str("Rice")}) :
        /\ \A c \in Stored(categories) :
              (\E k \in Stored(subCategories) :
                  /\ subCategories[k].name = body.name
                  /\ subCategories[k].categoryId = Oid(c))
              => Duplicate(createSubCategory(c, body),
                           "Subcategory with this name already exists in this category",
                           subCategories)
        /\ \A id \in Stored(subCategories) :
              (\E k \in Stored(subCategories) \ {id} :
                  /\ subCategories[k].name = body.name
                  /\ subCategories[k].categoryId = subCategories[id].categoryId)
              => Duplicate(updateSubCategory(id, body),
                           "Subcategory with this name already exists in this category",
                           subCategories)
  /\ \A body \in NameItemPosts :
        (\E k \in Stored(items) :
            /\ items[k].name = body.name
            /\ \/ /\ body.subCategoryId = Undefined /\ body.categoryId # Undefined
                  /\ items[k].categoryId = body.categoryId
               \/ /\ body.categoryId = Undefined /\ body.subCategoryId # Undefined
                  /\ items[k].subCategoryId = body.subCategoryId)
        => Duplicate(createItem(body), ItemDuplicateMessage, items)
  /\ \A id \in Stored(items), name \in {Str("Carbonara"), Str("Penne")} :
        (\E k \in Stored(items) \ {id} :
            /\ items[k].name = name
            /\ items[k].categoryId = items[id].categoryId
            /\ items[k].subCategoryId = items[id].subCategoryId)
        => Duplicate(updateItem(id, ItemPut([name |-> name])), ItemDuplicateMessage, items)

\* an update that moves an item to an owner where its name is taken is
\* refused as a duplicate
C17_OwnerConflictsRefused ==
  \A id \in Stored(items) :
     /\ \A c \in Stored(categories) :
           (\E k \in Stored(items) \ {id} :
               items[k].name = items[id].name /\ items[k].categoryId = Oid(c))
           => Duplicate(updateItem(id, ItemPut([categoryId |-> Oid(c)])),
                        ItemDuplicateMessage, items)
     /\ \A c \in Stored(subCategories) :
           (\E k \in Stored(items) \ {id} :
               items[k].name = items[id].name /\ items[k].subCategoryId = Oid(c))
           => Duplicate(updateItem(id, ItemPut([subCategoryId |-> Oid(c)])),
                        ItemDuplicateMessage, items)

\* C17: names are unique among the Categories, among the SubCategories of a
\* Category, among the Items of a Category and among the Items of a
\* SubCategory (an Item of a Category and an Item of a SubCategory may share
\* a name), and a create, a rename or a change of owner that would break
\* this is answered 400 with the duplicate message and changes nothing.
\* The code does not answer a change of owner so: it refuses every change of
\* owner in the update validators (C6).
C17_NamesUnique ==
  NamesUnique /\ C17_NameConflictsRefused /\ C17_OwnerConflictsRefused

\* C18: a request that fails is answered 400, 404 or 500, and one that
\* fails for an unexpected failure of the store is answered 500.  The code
\* does not do this: the catch blocks of the create and update handlers
\* answer every error they do not know with 400.
C18_StoreFailureIs500 ==
  /\ response.op \in Handlers /\ response.status \notin {200, 201}
     => response.status \in {400, 404, 500}
  /\ response.message = StoreError.message => response.status = 500

\* an id that no stored record of docs has
Missing(docs) == Len(docs) + 1

\* the owners of an update body of an item are well formed: at most one is
\* supplied, and the one supplied is the id of a stored record
OwnerResolves(body) ==
  /\ body.categoryId = Undefined \/ body.subCategoryId = Undefined
  /\ body.categoryId # Undefined
       => body.categoryId.type = "objectid" /\ body.categoryId.val \in Stored(categories)
  /\ body.subCategoryId # Undefined
       => /\ body.subCategoryId.type = "objectid"
          /\ body.subCategoryId.val \in Stored(subCategories)

C19Puts == EmptyPut \cup Renames({Str("Sides")})

\* an update of an id that is not stored, with a body that is well formed, is
\* answered 404
C19_NotFound ==
  /\ \A body \in C19Puts :
        /\ updateCategoryOf(categories, Missing(categories), body).status = 404
        /\ updateSubCategoryOf(subCategories, Missing(subCategories), body).status = 404
  /\ \A body \in OwnerItemPuts :
        OwnerResolves(body) => updateItemOf(items, Missing(items), body).status = 404

\* no update adds a record or removes one
C19_NoUpsert ==
  /\ \A id \in Ids(categories), body \in C19Puts :
        Len(updateCategoryOf(categories, id, body).docs) = Len(categories)
  /\ \A id \in Ids(subCategories), body \in C19Puts :
        Len(updateSubCategoryOf(subCategories, id, body).docs) = Len(subCategories)
  /\ \A id \in Ids(items), body \in OwnerItemPuts :
        Len(updateItemOf(items, id, body).docs) = Len(items)

\* C19: an update of a Category, a SubCategory or an Item whose target id is
\* not the id of a stored record is answered 404 and creates no record, the
\* number of stored records of each kind being the same before and after.
\* The code does not do this for an item: an update that names an owner is
\* refused with 400 by the update validators, which run before the lookup.
C19_MissingTarget404 == C19_NotFound /\ C19_NoUpsert

\* r and s answer the same request, but for the totalAmount of its body
SameButTotal(r, s) == r.status = s.status /\ r.docs = s.docs

\* C20: totalAmount is never set by the caller.  Two createItem requests, or
\* two updateItem requests, that differ only in a totalAmount of the payload
\* are answered with the same status and leave the same stored items, and
\* the totalAmount of every stored item is the difference of its baseAmount
\* and its discount, whatever totalAmount the requests carried.
C20_TotalNotSettable ==
  /\ \A body \in AmountItemPosts, t \in Totals :
        SameButTotal(createItem(body), createItem(WithTotal(body, t)))
  /\ \A id \in Ids(items), body \in AmountItemPuts, t \in Totals :
        SameButTotal(updateItemOf(items, id, body),
                     updateItemOf(items, id, WithTotal(body, t)))
  /\ \A i \in Stored(items) :
        items[i].totalAmount = Minus(items[i].baseAmount, items[i].discount)

\* C20 happens: an update that carried a totalAmount was accepted, and the
\* total of a stored item is none of the totals that the requests carry
C20_Witness ==
  /\ response.op = "updateItem" /\ response.status = 200
  /\ \E i \in Stored(items) : items[i].totalAmount \notin Totals

\* no update of a stored subcategory, whatever categoryId its body carries,
\* leaves the subcategory with another categoryId
C21_EveryUpdate ==
  \A id \in Stored(subCategories), body \in ParentPuts :
     updateSubCategoryOf(subCategories, id, body).docs[id].categoryId
       = subCategories[id].categoryId

\* C21: the categoryId of a SubCategory never changes after its creation:
\* every updateSubCategory, also one whose payload carries a categoryId,
\* leaves the stored categoryId as it is, and so does every other request.
C21_ParentImmutable ==
  /\ []C21_EveryUpdate
  /\ [][\A k \in Stored(subCategories) :
          subCategories'[k].categoryId = subCategories[k].categoryId]_vars

\* C21 happens: with two categories stored, an update that carried a
\* categoryId was accepted and renamed a subcategory
C21_Witness ==
  /\ response.op = "updateSubCategory" /\ response.status = 200
  /\ Len(categories) = 2
  /\ \E k \in Stored(subCategories) :
        subCategories[k].name = Str("Rice") /\ subCategories[k].categoryId = Oid(1)

\* f is a field that the payload of an update does not carry
NotSupplied(body, f) == f \notin DOMAIN body \/ body[f] = Undefined

\* f is a field that an update with this payload derives or clears
DerivedOrCleared(body, f) ==
  \/ f = "totalAmount" /\ (~NotSupplied(body, "baseAmount") \/ ~NotSupplied(body, "discount"))
  \/ f \in {"tax", "taxType"} /\ body.taxApplicability = Bool(FALSE)
  \/ f = "categoryId" /\ ~NotSupplied(body, "subCategoryId")
  \/ f = "subCategoryId" /\ ~NotSupplied(body, "categoryId")

\* r answers an update of docs[id] that, if it is accepted, leaves every
\* field its payload does not carry as it was
Partial(docs, id, body, r) ==
  r.status = 200
  => \A f \in DOMAIN docs[id] :
        NotSupplied(body, f) /\ ~DerivedOrCleared(body, f) => r.docs[id][f] = docs[id][f]

C22Puts == C15Puts \cup Renames({Str("Sides")})

C22ItemPuts == C15ItemPuts \cup AmountItemPuts \cup NameItemPuts

NonNegativeNumber(v) == IsNumber(v) /\ v.val >= 0

\* C23: calculateTotal(baseAmount, discount) fails with an error that names
\* the base amount when baseAmount is no number or is negative, otherwise
\* with one that names the discount when discount is no number or is
\* negative, otherwise with 'Discount cannot be greater than base amount'
\* when discount > baseAmount, and otherwise returns baseAmount - discount
\* rounded to 2 decimals, a value from 0 to baseAmount, which is baseAmount
\* when the discount is omitted.  The code does not do this for NaN and the
\* infinite numbers, which typeof calls numbers, and the value it rounds up
\* is greater than baseAmount.
C23_CalculateTotal ==
  response.op = "calculateTotal"
  => LET baseAmount == response.baseAmount
         discount == IF response.discount = Undefined THEN Num(0) ELSE response.discount
         v == response.value IN
     IF ~NonNegativeNumber(baseAmount)
       THEN response.message = "Base amount must be a non-negative number"
     ELSE IF ~NonNegativeNumber(discount)
       THEN response.message = "Discount must be a non-negative number"
     ELSE IF discount.val > baseAmount.val THEN response.message = DiscountMessage
     ELSE /\ response.message = ""
          /\ v = toFixed2(Num(baseAmount.val - discount.val))
          /\ 0 <= v.val /\ v.val <= baseAmount.val
          /\ response.discount = Undefined => v = baseAmount

\* a body asks for a fixed tax above 100
FixedAbove100(body) ==
  /\ body.taxApplicability = Bool(TRUE) /\ body.taxType = Str("fixed")
  /\ IsNumber(body.tax) /\ body.tax.val > 100

\* r accepts, with this status, a request whose body carries a tax, and the
\* document at position id has that tax
AcceptedWithTax(r, status, id, body) == r.status = status /\ r.docs[id].tax = body.tax

\* C24: the bound tax <= 100 holds for a percentage only.  A create or an
\* update of a Category, a SubCategory or an Item with taxApplicability =
\* true, taxType = fixed and tax > 100 is accepted and stored with that tax.
\* The code does not do this: max: 100 of the schemas is on every tax.
C24_FixedTaxUnbounded ==
  /\ \A body \in FixedPosts("Bread") :
        FixedAbove100(body)
        => AcceptedWithTax(createCategory(body), 201, Len(categories) + 1, body)
  /\ \A k \in Stored(categories), body \in FixedPosts("Bread") :
        FixedAbove100(body)
        => AcceptedWithTax(createSubCategory(k, body), 201, Len(subCategories) + 1, body)
  /\ \A body \in FixedItemPosts :
        FixedAbove100(body) /\ Len(categories) > 0 /\ ~ItemNameTaken(items, body, 0)
        => AcceptedWithTax(createItem(body), 201, Len(items) + 1, body)
  /\ \A id \in Stored(categories), body \in FixedPuts :
        FixedAbove100(body)
        => AcceptedWithTax(updateCategoryOf(categories, id, body), 200, id, body)
  /\ \A id \in Stored(subCategories), body \in FixedPuts :
        FixedAbove100(body)
        => AcceptedWithTax(updateSubCategoryOf(subCategories, id, body), 200, id, body)
  /\ \A id \in Stored(items), body \in FixedItemPuts :
        FixedAbove100(body)
        => AcceptedWithTax(updateItemOf(items, id, body), 200, id, body)

\* a stored document has taxApplicability true and a valid tax and taxType
TaxableAndValid(doc) ==
  /\ doc.taxApplicability = Bool(TRUE)
  /\ IsNumber(doc.tax) /\ 0 <= doc.tax.val /\ doc.tax.val <= 100
  /\ doc.taxType \in {Str("percentage"), Str("fixed")}

\* the update that says taxApplicability: true and nothing else
OnlyTaxable == TaxedBodies(Absent, {Bool(TRUE)}, Absent, Absent)

OnlyTaxableItem ==
  ItemBodies(Absent, {Bool(TRUE)}, Absent, Absent, Absent, Absent, Absent, Absent)

\* r accepts an update of docs[id] and leaves its tax fields as they were
AcceptedAsStored(docs, id, r) ==
  r.status = 200 /\ \A f \in TaxFields : r.docs[id][f] = docs[id][f]

\* C25: an update is validated on the merged candidate.  An update that
\* supplies taxApplicability = true without tax and taxType, of a record
\* stored with taxApplicability = true and a valid tax and taxType, is
\* accepted and leaves the stored tax fields as they are.  The code does not
\* do this: the handlers look for tax and taxType in the payload alone.
C25_MergedCandidateValidated ==
  /\ \A id \in Stored(categories), body \in OnlyTaxable :
        TaxableAndValid(categories[id])
        => AcceptedAsStored(categories, id, updateCategoryOf(categories, id, body))
  /\ \A id \in Stored(subCategories), body \in OnlyTaxable :
        TaxableAndValid(subCategories[id])
        => AcceptedAsStored(subCategories, id,
                            updateSubCategoryOf(subCategories, id, body))
  /\ \A id \in Stored(items), body \in OnlyTaxableItem :
        TaxableAndValid(items[id])
        => AcceptedAsStored(items, id, updateItemOf(items, id, body))

\* a body asks for a tax of 0, with taxApplicability true and a taxType
ZeroTax(body) ==
  /\ body.taxApplicability = Bool(TRUE) /\ body.tax = Num(0)
  /\ body.taxType \in {Str("fixed"), Str("percentage")}

\* C26: a tax of 0 counts as present.  With taxApplicability = true, tax = 0
\* and a valid taxType, a create and an update of a Category, a SubCategory
\* and an Item are accepted and store tax = 0.
C26_ZeroTaxAccepted ==
  /\ \A body \in ZeroPosts("Bread") :
        ZeroTax(body)
        => AcceptedWithTax(createCategory(body), 201, Len(categories) + 1, body)
  /\ \A k \in Stored(categories), body \in ZeroPosts("Bread") :
        ZeroTax(body)
        => AcceptedWithTax(createSubCategory(k, body), 201, Len(subCategories) + 1, body)
  /\ \A body \in ZeroItemPosts :
        ZeroTax(body) /\ Len(categories) > 0 /\ ~ItemNameTaken(items, body, 0)
        => AcceptedWithTax(createItem(body), 201, Len(items) + 1, body)
  /\ \A id \in Stored(categories), body \in ZeroPuts :
        ZeroTax(body)
        => AcceptedWithTax(updateCategoryOf(categories, id, body), 200, id, body)
  /\ \A id \in Stored(subCategories), body \in ZeroPuts :
        ZeroTax(body)
        => AcceptedWithTax(updateSubCategoryOf(subCategories, id, body), 200, id, body)
  /\ \A id \in Stored(items), body \in ZeroItemPuts :
        ZeroTax(body)
        => AcceptedWithTax(updateItemOf(items, id, body), 200, id, body)

\* C26 happens: an update of an item was accepted, and a category, a
\* subcategory and an item are stored as taxable with a tax of 0
C26_Witness ==
  /\ response.op = "updateItem" /\ response.status = 200
  /\ \E c \in Stored(categories), k \in Stored(subCategories), i \in Stored(items) :
        /\ categories[c].taxApplicability = Bool(TRUE) /\ categories[c].tax = Num(0)
        /\ subCategories[k].taxApplicability = Bool(TRUE) /\ subCategories[k].tax = Num(0)
        /\ items[i].taxApplicability = Bool(TRUE) /\ items[i].tax = Num(0)

\* C27: however two updateItem requests on the same item interleave, one
\* supplying only baseAmount and the other only discount, the item stored
\* when both have ended has discount <= baseAmount and totalAmount =
\* baseAmount - discount.  The code does not keep this: each request checks
\* and derives from the amounts it read, and writes only its own field and
\* its total.
C27_RaceKeepsTotal ==
  (\A c \in Clients : inFlight[c] = Idle)
  => \A i \in Stored(items) :
        /\ ~GreaterThan(items[i].discount, items[i].baseAmount)
        /\ items[i].totalAmount = Minus(items[i].baseAmount, items[i].discount)

\* id is the id of a stored document of docs
Names(id, docs) == id.type = "objectid" /\ id.val \in Stored(docs)

\* every reference of a stored record names a stored record
ReferencesResolve ==
  /\ \A k \in Stored(subCategories) : Names(subCategories[k].categoryId, categories)
  /\ \A i \in Stored(items) :
        /\ items[i].categoryId # Undefined \/ items[i].subCategoryId # Undefined
        /\ items[i].categoryId # Undefined => Names(items[i].categoryId, categories)
        /\ items[i].subCategoryId # Undefined
             => Names(items[i].subCategoryId, subCategories)

\* C28: no operation removes a record and no reference dangles.  The stored
\* Categories, SubCategories and Items only grow, the categoryId of every
\* SubCategory names a stored Category, and the categoryId or subCategoryId
\* of every Item names a stored Category or SubCategory.
C28_NothingRemovedNothingDangles ==
  /\ []ReferencesResolve
  /\ [][/\ Len(categories') >= Len(categories)
        /\ Len(subCategories') >= Len(subCategories)
        /\ Len(items') >= Len(items)]_vars

\* C28 happens: with an item of a category stored, a createItem that named
\* a subcategory that is not stored was refused
C28_Witness ==
  /\ response = [op |-> "createItem", status |-> 404, message |-> "Subcategory not found"]
  /\ \E i \in Stored(items) : Names(items[i].categoryId, categories)

\* the answer that the first failing check of createItem gives to a body, in
\* the order of the handler; "" when the body passes the four checks
FirstRefusal(body) ==
  IF \/ ~Truthy(body.name) \/ ~Truthy(body.image) \/ ~Truthy(body.description)
     \/ body.taxApplicability = Undefined \/ body.baseAmount = Undefined
    THEN "Name, image, description, tax applicability, and base amount are required"
  ELSE IF ~Truthy(body.categoryId) /\ ~Truthy(body.subCategoryId)
    THEN "Either category ID or subcategory ID must be provided"
  ELSE IF Truthy(body.categoryId) /\ Truthy(body.subCategoryId)
    THEN "Item cannot belong to both category and subcategory simultaneously"
  ELSE IF Truthy(body.taxApplicability) /\ (body.tax = Undefined \/ body.taxType = Undefined)
    THEN "Tax amount and tax type are required when tax is applicable"
  ELSE ""

\* C29: createItem checks the payload in a fixed order before it asks the
\* store anything: missing required fields, then no owner, then both
\* owners, then missing tax fields, each answered 400 whatever is stored, so
\* that a request with both owner ids is answered 400 and not 404 also when
\* neither id is stored; only a body that passes these checks has its owner
\* looked up, with 404 and nothing written when it is not stored, and only
\* an item whose owner was found is written.
C29_ChecksBeforeLookup ==
  \A body \in OrderItemPosts :
     LET r == createItem(body) IN
     IF FirstRefusal(body) # ""
       THEN r = Reply(400, FirstRefusal(body), items)
     ELSE IF UnresolvedOwner(body) THEN r.status = 404 /\ r.docs = items
     ELSE r.status = 201
          => LET doc == r.docs[Len(r.docs)] IN
             \/ Names(doc.categoryId, categories) /\ doc.categoryId = body.categoryId
             \/ Names(doc.subCategoryId, subCategories)
                /\ doc.subCategoryId = body.subCategoryId

\* C29 happens: with nothing stored, a createItem that named two owners was
\* answered 400 for naming both
C29_Witness ==
  /\ categories = <<>> /\ subCategories = <<>>
  /\ response = [op |-> "createItem", status |-> 400,
                 message |-> "Item cannot belong to both category and subcategory simultaneously"]

=============================================================================
